---- MODULE Spec2Model ----
(***************************************************************************)
(* find-me-nest: the discovery pass (fetch_offers.py) and the per-offer    *)
(* pass (parse_offers.py) as a state machine over the shared spreadsheet,  *)
(* the work-list files and the record of the last process run.             *)
(*                                                                         *)
(* Every process run is strictly sequential and runs start to finish       *)
(* before the next one starts, so one run is one action.  What the outside *)
(* world answers to each call of a run (the portal, the spreadsheet, the   *)
(* travel-time provider, the file system, the environment) is an input of  *)
(* the action.  The calls a run really made are kept, in order and with    *)
(* their results, in run.events.                                           *)
(*                                                                         *)
(* Geography: all points lie on one meridian and latitudes count steps of  *)
(* 1 km of arc, so that the Haversine formula gives |dlat| kilometres.     *)
(* Listing fields that no operation below branches on (title, area, url,   *)
(* address, costs) are represented by whether they are present.            *)
(***************************************************************************)
EXTENDS Integers, Sequences, FiniteSets, TLC

VARIABLES
    warsaw_metro_stations,  \* the static station table, in iteration order
    worksheet,              \* data rows of the sheet, below its header row
    current_offers,         \* lines of current_offers.csv, << >> when absent
    output,                 \* lines of the output/offers_<timestamp>.csv
                            \* written last, << >> when none was written
    run,                    \* the last process run: inputs, calls, result
    runs                    \* the number of process runs so far

vars == <<warsaw_metro_stations, worksheet, current_offers, output, run, runs>>

-----------------------------------------------------------------------------
(* Bounds *)

NumOffers == 2
MaxLat == 2
MaxStations == 2
MaxRuns == 3
MaxOfferRuns == 1

-----------------------------------------------------------------------------
(* The portal: offers, their identifiers, slugs and coordinates *)

Offers == 1..NumOffers

SlugText == <<"mieszkanie-a", "mieszkanie-b", "mieszkanie-c", "mieszkanie-d">>
IdText == <<"101", "102", "103", "104">>

OfferId(o) == 100 + o
OfferSlug(o) == SlugText[o]
OfferLat(o) == 2 * (o - 1)

UnknownSlug == "no-such-offer"
Slugs == {OfferSlug(o) : o \in Offers}

\* str(offer["id"]) and the text the sheet gives back for a numeric cell
Str(id) == IdText[id - 100]

\* What is missing from the listing document the portal returns
MissingField == {"none", "coordinates", "title", "characteristics"}

NA == "N/A"
None == 0
NoData == [none |-> TRUE]
WalkingText == "12 mins"
TransitText == "7 mins"
NoFile == ""
ArchiveFile == "output/offers_<timestamp>.csv"

Range(s) == {s[i] : i \in 1..Len(s)}

Event(call, result) == [call |-> call, result |-> result]

-----------------------------------------------------------------------------
(* parse_offers.py: GeoIndex *)

Abs(x) == IF x < 0 THEN -x ELSE x

Infinity == 1000
Threshold == 1

\* Haversine with dlon = 0: a = sin(dlat/2)^2, c = |dlat|, distance = R * |dlat|,
\* which is |lat2 - lat1| km for latitudes counted in kilometres of arc
calculate_distance(lat1, lon1, lat2, lon2) == Abs(lat2 - lat1)

\* The scan with <= in place of <: among equally near stations the last wins
RECURSIVE ScanLast(_, _, _, _, _)
ScanLast(i, lat, lon, closest_station, min_distance) ==
    IF i > Len(warsaw_metro_stations) THEN closest_station
    ELSE LET distance == calculate_distance(lat, lon,
                             warsaw_metro_stations[i][1], warsaw_metro_stations[i][2])
         IN  IF distance <= min_distance
             THEN ScanLast(i + 1, lat, lon, i, distance)
             ELSE ScanLast(i + 1, lat, lon, closest_station, min_distance)

\* The loop of find_closest_metro_station; a station's name is its place in
\* the table, None when no station was closer than infinity
RECURSIVE ScanStations(_, _, _, _, _)
ScanStations(i, lat, lon, closest_station, min_distance) ==
    IF i > Len(warsaw_metro_stations) THEN closest_station
    ELSE LET distance == calculate_distance(lat, lon,
                             warsaw_metro_stations[i][1], warsaw_metro_stations[i][2])
         IN  IF distance < min_distance
             THEN ScanStations(i + 1, lat, lon, i, distance)
             ELSE ScanStations(i + 1, lat, lon, closest_station, min_distance)

find_closest_last(lat, lon) == ScanLast(1, lat, lon, None, Infinity)

find_closest_metro_station(lat, lon) == ScanStations(1, lat, lon, None, Infinity)

\* The filter with the radius one kilometre too wide
should_process_within_two(lat, lon) ==
    LET closest_station == find_closest_metro_station(lat, lon)
    IN  IF closest_station = None
        THEN [exc |-> TRUE]
        ELSE LET station_coords == warsaw_metro_stations[closest_station]
                 distance == calculate_distance(lat, lon,
                                 station_coords[1], station_coords[2])
             IN  [exc |-> FALSE,
                  should_process |-> distance <= Threshold + 1,
                  closest_station |-> closest_station,
                  station_coords |-> station_coords]

\* warsaw_metro_stations[None] raises KeyError when the table is empty
should_process_offer(lat, lon) ==
    LET closest_station == find_closest_metro_station(lat, lon)
    IN  IF closest_station = None
        THEN [exc |-> TRUE]
        ELSE LET station_coords == warsaw_metro_stations[closest_station]
                 distance == calculate_distance(lat, lon,
                                 station_coords[1], station_coords[2])
             IN  [exc |-> FALSE,
                  should_process |-> distance <= Threshold,
                  closest_station |-> closest_station,
                  station_coords |-> station_coords]

-----------------------------------------------------------------------------
(* parse_offers.py: enrichment and extraction *)

\* What one distance_matrix call does: element status OK, another status,
\* or an exception (network error, malformed answer)
ProviderResult == {"OK", "ZERO_RESULTS", "RAISE"}

TravelCalls(walking_result, transit_result) ==
    IF walking_result = "RAISE"
    THEN <<Event("distance_matrix walking", walking_result)>>
    ELSE <<Event("distance_matrix walking", walking_result),
           Event("distance_matrix transit", transit_result)>>

\* The two calls without the try block: an exception leaves the function
get_travel_times_no_except(walking_result, transit_result) ==
    IF walking_result = "RAISE" \/ transit_result = "RAISE"
    THEN [exc |-> TRUE, events |-> TravelCalls(walking_result, transit_result)]
    ELSE [exc |-> FALSE,
          walking_time |-> IF walking_result = "OK" THEN WalkingText ELSE NA,
          transit_time |-> IF transit_result = "OK" THEN TransitText ELSE NA,
          events |-> TravelCalls(walking_result, transit_result)]

\* walking_result and transit_result are what the provider does on the two
\* calls.  Both calls sit in one try block: an exception in either gives
\* N/A twice, and after an exception in the first the second is not made.
get_travel_times(walking_result, transit_result) ==
    IF walking_result = "RAISE" \/ transit_result = "RAISE"
    THEN [exc |-> FALSE, walking_time |-> NA, transit_time |-> NA,
          events |-> TravelCalls(walking_result, transit_result)]
    ELSE [exc |-> FALSE,
          walking_time |-> IF walking_result = "OK" THEN WalkingText ELSE NA,
          transit_time |-> IF transit_result = "OK" THEN TransitText ELSE NA,
          events |-> TravelCalls(walking_result, transit_result)]

\* ad: [id, slug, lat, lon, missing].  The result is the returned dict, or
\* exc when a field lookup or should_process_offer raises; events are the
\* provider calls made up to that point.  ad.missing names what the document
\* lacks: the coordinates (read first), a field read only when building the
\* description for an offer within the threshold (title, features,
\* advertiserType, ...), or a field read after that for every offer (cost
\* characteristics, url, id, slug, address).  The summarization provider is
\* bypassed: its three fields are set to "N/A" without a call.
extract_offer_data(ad, walking_result, transit_result) ==
    IF ad.missing = "coordinates" THEN [exc |-> TRUE, events |-> << >>]
    ELSE
    LET sp == should_process_offer(ad.lat, ad.lon)
    IN  IF sp.exc THEN [exc |-> TRUE, events |-> << >>]
        ELSE
        LET tt == IF sp.should_process
                  THEN get_travel_times(walking_result, transit_result)
                  ELSE [exc |-> FALSE, walking_time |-> NA, transit_time |-> NA,
                        events |-> << >>]
        IN  IF tt.exc THEN [exc |-> TRUE, events |-> tt.events]
            ELSE IF sp.should_process /\ ad.missing = "title"
            THEN [exc |-> TRUE, events |-> tt.events]
            ELSE IF ad.missing = "characteristics"
            THEN [exc |-> TRUE, events |-> tt.events]
            ELSE [exc |-> FALSE,
                  events |-> tt.events,
                  data |-> [closest_metro |-> sp.closest_station,
                            walking_time |-> tt.walking_time,
                            transit_time |-> tt.transit_time,
                            offer_id |-> ad.id,
                            slug |-> ad.slug,
                            available_from |-> NA,
                            total_monthly_cost |-> NA,
                            key_advantages |-> NA]]

-----------------------------------------------------------------------------
(* parse_offers.py: SinkWriter *)

\* What the spreadsheet service does during one save_to_sheets; format stands
\* for get_all_values followed by format, the two calls after the append
SheetResult == {"ok", "open_error", "append_error", "format_error"}

Row(data, status) ==
    [status |-> status,
     closest_metro |-> data.closest_metro,
     walking_time |-> data.walking_time,
     transit_time |-> data.transit_time,
     offer_id |-> data.offer_id,
     slug |-> data.slug,
     available_from |-> data.available_from,
     total_monthly_cost |-> data.total_monthly_cost,
     key_advantages |-> data.key_advantages,
     background |-> "none"]

\* len(worksheet.get_all_values()) counts the header row as well
LastRow(sheet) == Len(sheet) + 1

Format(sheet, last_row, colour) ==
    [sheet EXCEPT ![last_row - 1].background = colour]

save_to_sheets(data, sheet_result) ==
    IF sheet_result = "open_error"
    THEN [exc |-> TRUE, worksheet |-> worksheet,
          events |-> <<Event("open_by_key", "error")>>]
    ELSE
    LET meets_criteria == data.walking_time # NA
        status == IF meets_criteria THEN "GREEN" ELSE "RED"
        appended == Append(worksheet, Row(data, status))
        colour == IF meets_criteria THEN "green" ELSE "red"
    IN  IF sheet_result = "append_error"
        THEN [exc |-> TRUE, worksheet |-> worksheet,
              events |-> <<Event("open_by_key", "ok"), Event("append_row", "error")>>]
        ELSE IF sheet_result = "format_error"
        THEN [exc |-> TRUE, worksheet |-> appended,
              events |-> <<Event("open_by_key", "ok"), Event("append_row", "ok"),
                           Event("format", "error")>>]
        ELSE [exc |-> FALSE,
              worksheet |-> Format(appended, LastRow(appended), colour),
              events |-> <<Event("open_by_key", "ok"), Event("append_row", "ok"),
                           Event("format", "ok")>>]

-----------------------------------------------------------------------------
(* parse_offers.py: the per-offer pass *)

Env(spreadsheet_id, google_maps_api_key) ==
    [SPREADSHEET_ID |-> spreadsheet_id, GOOGLE_MAPS_API_KEY |-> google_maps_api_key]

\* The document behind https://www.otodom.pl/pl/oferta/<slug>; a slug the
\* portal does not know has no __NEXT_DATA__ ad, and parsing it raises
fetch_offer_details(slug, fetch_result, missing) ==
    IF fetch_result = "error" \/ slug \notin Slugs
    THEN [exc |-> TRUE, events |-> <<Event("GET offer", "error")>>]
    ELSE LET o == CHOOSE x \in Offers : OfferSlug(x) = slug
         IN  [exc |-> FALSE,
              events |-> <<Event("GET offer", "ok")>>,
              data |-> [id |-> OfferId(o), slug |-> slug,
                        lat |-> OfferLat(o), lon |-> 0,
                        missing |-> missing]]

ParseRun(argc, slug, env, exit_code, events, ad, offer_data) ==
    [prog |-> "parse_offers", argc |-> argc, argv |-> slug, env |-> env,
     exit_code |-> exit_code, events |-> events, ad |-> ad,
     offer_data |-> offer_data, slugs |-> << >>, csv_file |-> NoFile,
     rows_before |-> Len(worksheet)]

\* The result of main(): the record of the run and the sheet it leaves.
\* extract_offer_data never returns None, so the exit(0) branch is dead.
parse_offers_main(argc, slug, env, client_result, fetch_result, missing, walking_result, transit_result, sheet_result) ==
    IF argc # 2
    THEN [run |-> ParseRun(argc, slug, env, 1, << >>, NoData, NoData),
          worksheet |-> worksheet]
    ELSE IF ~env.SPREADSHEET_ID \/ ~env.GOOGLE_MAPS_API_KEY
    THEN [run |-> ParseRun(argc, slug, env, 1, << >>, NoData, NoData),
          worksheet |-> worksheet]
    ELSE IF client_result = "error"
    THEN [run |-> ParseRun(argc, slug, env, 1, <<Event("Client", "error")>>,
                           NoData, NoData),
          worksheet |-> worksheet]
    ELSE
    LET e0 == <<Event("Client", "ok")>>
        fetched == fetch_offer_details(slug, fetch_result, missing)
    IN  IF fetched.exc
        THEN [run |-> ParseRun(argc, slug, env, 1, e0 \o fetched.events,
                               NoData, NoData),
              worksheet |-> worksheet]
        ELSE
        LET e1 == e0 \o fetched.events
            extracted == extract_offer_data(fetched.data, walking_result,
                                            transit_result)
        IN  IF extracted.exc
            THEN [run |-> ParseRun(argc, slug, env, 1, e1 \o extracted.events,
                                   fetched.data, NoData),
                  worksheet |-> worksheet]
            ELSE
            LET e2 == e1 \o extracted.events
                saved == save_to_sheets(extracted.data, sheet_result)
            IN  [run |-> ParseRun(argc, slug, env,
                                  IF saved.exc THEN 1 ELSE 0,
                                  e2 \o saved.events,
                                  fetched.data, extracted.data),
                 worksheet |-> saved.worksheet]

\* The inputs of one run.  An input the run never reads (the code path ends
\* before it) is fixed, so that each run is enumerated once.
Reads(reached, values, unread) == IF reached THEN values ELSE {unread}

ParseStep(max_runs) ==
    /\ runs < max_runs
    /\ runs' = runs + 1
    /\ \E argc \in {1, 2} :
       \E slug \in Reads(argc = 2, Slugs \cup {UnknownSlug}, "") :
       \E spreadsheet_id \in Reads(argc = 2, BOOLEAN, TRUE) :
       \E google_maps_api_key \in Reads(argc = 2 /\ spreadsheet_id, BOOLEAN, TRUE) :
       \E client_result \in Reads(argc = 2 /\ spreadsheet_id /\ google_maps_api_key,
                                  {"ok", "error"}, "error") :
       \E fetch_result \in Reads(client_result = "ok" /\ slug \in Slugs,
                                 {"ok", "error"}, "error") :
       \E missing \in Reads(fetch_result = "ok", MissingField, "none") :
       \E walking_result \in Reads(fetch_result = "ok" /\ missing # "coordinates",
                                   ProviderResult, "RAISE") :
       \E transit_result \in Reads(walking_result # "RAISE", ProviderResult, "RAISE") :
       \E sheet_result \in Reads(fetch_result = "ok" /\ missing = "none",
                                 SheetResult, "ok") :
        LET r == parse_offers_main(argc, slug,
                     Env(spreadsheet_id, google_maps_api_key),
                     client_result, fetch_result, missing,
                     walking_result, transit_result, sheet_result)
        IN  /\ run' = r.run
            /\ worksheet' = r.worksheet
    /\ UNCHANGED <<warsaw_metro_stations, current_offers, output>>

ParseMain == ParseStep(MaxRuns)

OfferRun == ParseStep(MaxOfferRuns)

-----------------------------------------------------------------------------
(* fetch_offers.py: the discovery pass *)

\* worksheet.col_values(11): the offer id column as text, header row first
col_values_11 ==
    <<"offer_id">> \o [i \in 1..Len(worksheet) |-> Str(worksheet[i].offer_id)]

get_existing_offers(spreadsheet_id, sheet_result) ==
    IF ~spreadsheet_id
    THEN [existing_offers |-> {}, events |-> << >>]
    ELSE IF sheet_result = "error"
    THEN [existing_offers |-> {}, events |-> <<Event("col_values", "error")>>]
    ELSE [existing_offers |-> Range(Tail(col_values_11)),
          events |-> <<Event("col_values", "ok")>>]

\* items: the offers of the search page, in page order
fetch_offers_list(search_result, items, spreadsheet_id, sheet_result) ==
    IF search_result = "error"
    THEN [slugs |-> << >>, events |-> <<Event("GET search", "error")>>]
    ELSE
    LET existing == get_existing_offers(spreadsheet_id, sheet_result)
        IsNew(o) == Str(OfferId(o)) \notin existing.existing_offers
        new_offers == SelectSeq(items, IsNew)
    IN  [slugs |-> [i \in 1..Len(new_offers) |-> OfferSlug(new_offers[i])],
         events |-> <<Event("GET search", "ok")>> \o existing.events]

CsvResult == {"ok", "makedirs_error", "output_error", "current_error"}

CsvLines(slugs) == <<"slug">> \o slugs

\* makedirs is outside the try block; the two files are written in turn.
\* csv_file stands for the timestamped file name.
save_slugs_to_csv(slugs, csv_result) ==
        IF csv_result = "makedirs_error"
        THEN [exc |-> TRUE, csv_file |-> NoFile, output |-> output,
              current_offers |-> current_offers, events |-> << >>]
        ELSE IF csv_result = "output_error"
        THEN [exc |-> FALSE, csv_file |-> NoFile, output |-> output,
              current_offers |-> current_offers,
              events |-> <<Event("write output", "error")>>]
        ELSE IF csv_result = "current_error"
        THEN [exc |-> FALSE, csv_file |-> NoFile,
              output |-> CsvLines(slugs),
              current_offers |-> current_offers,
              events |-> <<Event("write output", "ok"),
                           Event("write current_offers", "error")>>]
        ELSE [exc |-> FALSE, csv_file |-> ArchiveFile,
              output |-> CsvLines(slugs),
              current_offers |-> CsvLines(slugs),
              events |-> <<Event("write output", "ok"),
                           Event("write current_offers", "ok")>>]

FetchRun(env, exit_code, events, slugs, csv_file) ==
    [prog |-> "fetch_offers", argc |-> 1, argv |-> "", env |-> env,
     exit_code |-> exit_code, events |-> events, ad |-> NoData,
     offer_data |-> NoData, slugs |-> slugs, csv_file |-> csv_file,
     rows_before |-> Len(worksheet)]

fetch_offers_main(env, search_result, items, sheet_result, csv_result) ==
    LET listed == fetch_offers_list(search_result, items, env.SPREADSHEET_ID,
                                    sheet_result)
    IN  IF listed.slugs = << >>
        THEN [run |-> FetchRun(env, 0, listed.events, listed.slugs, NoFile),
              output |-> output, current_offers |-> current_offers]
        ELSE
        LET saved == save_slugs_to_csv(listed.slugs, csv_result)
        IN  [run |-> FetchRun(env, IF saved.exc THEN 1 ELSE 0,
                              listed.events \o saved.events,
                              listed.slugs, saved.csv_file),
             output |-> saved.output,
             current_offers |-> saved.current_offers]

\* The search pages the portal can return: its offers in either order
RECURSIVE Listings(_)
Listings(n) ==
    IF n = 0 THEN {<< >>}
    ELSE LET shorter == Listings(n - 1)
         IN  shorter \cup
             {Append(s, o) : s \in {t \in shorter : Len(t) = n - 1},
                             o \in Offers}

SearchPages == {s \in Listings(NumOffers) :
                   \A i, j \in 1..Len(s) : i # j => s[i] # s[j]}

FetchMain ==
    /\ runs < MaxRuns
    /\ runs' = runs + 1
    /\ \E spreadsheet_id \in BOOLEAN,
          search_result \in {"ok", "error"}, items \in SearchPages,
          sheet_result \in {"ok", "error"}, csv_result \in CsvResult :
        LET r == fetch_offers_main(Env(spreadsheet_id, TRUE), search_result,
                                   items, sheet_result, csv_result)
        IN  /\ run' = r.run
            /\ output' = r.output
            /\ current_offers' = r.current_offers
    /\ UNCHANGED <<warsaw_metro_stations, worksheet>>

-----------------------------------------------------------------------------
(* The system *)

\* The kilometre marks of the stations
Lats == 0..MaxLat

RECURSIVE Tables(_)
Tables(n) ==
    IF n = 0 THEN {<< >>}
    ELSE LET shorter == Tables(n - 1)
         IN  shorter \cup
             {Append(t, <<lat, 0>>) : t \in {u \in shorter : Len(u) = n - 1},
                                      lat \in Lats}

NoRun ==
    [prog |-> "none", argc |-> 1, argv |-> "", env |-> Env(TRUE, TRUE),
     exit_code |-> 0, events |-> << >>, ad |-> NoData, offer_data |-> NoData,
     slugs |-> << >>, csv_file |-> NoFile, rows_before |-> 0]

\* One station at km 1: every offer of the portal is 1 km away from it
OneStation == <<<<1, 0>>>>

Init ==
    /\ warsaw_metro_stations = OneStation
    /\ worksheet = << >>
    /\ current_offers = << >>
    /\ output = << >>
    /\ run = NoRun
    /\ runs = 0

Next == ParseMain \/ FetchMain

Spec == Init /\ [][Next]_vars

\* The per-offer pass alone, over every station table
InitOffer ==
    /\ warsaw_metro_stations \in Tables(MaxStations)
    /\ worksheet = << >>
    /\ current_offers = << >>
    /\ output = << >>
    /\ run = NoRun
    /\ runs = 0

NextOffer == OfferRun

SpecOffer == InitOffer /\ [][NextOffer]_vars

-----------------------------------------------------------------------------
(* What the claims speak of *)

IsData(x) == "none" \notin DOMAIN x

Stations == 1..Len(warsaw_metro_stations)

Distance(lat, i) ==
    calculate_distance(lat, 0, warsaw_metro_stations[i][1], warsaw_metro_stations[i][2])

\* Brute-force oracle: i is a nearest station, and the first such in the table
FirstNearest(lat, i) ==
    /\ i \in Stations
    /\ \A j \in Stations : Distance(lat, i) <= Distance(lat, j)
    /\ \A j \in Stations : j < i => Distance(lat, j) > Distance(lat, i)

MeetsThreshold(lat) == \E i \in Stations : Distance(lat, i) <= Threshold

Beyond(lat) == Stations # {} /\ \A i \in Stations : Distance(lat, i) > Threshold

LatOfId(id) == OfferLat(id - 100)

Called(call) == \E k \in 1..Len(run.events) : run.events[k].call = call

ResultOf(call) ==
    IF Called(call)
    THEN run.events[CHOOSE k \in 1..Len(run.events) : run.events[k].call = call].result
    ELSE "not called"

EnrichmentCalls ==
    {"distance_matrix walking", "distance_matrix transit", "analyze_offer_with_llm"}

SinkFailed == \E k \in 1..Len(run.events) :
                 /\ run.events[k].call \in {"open_by_key", "append_row", "format"}
                 /\ run.events[k].result = "error"

QueryPoints == 0..(MaxLat + 2)

-----------------------------------------------------------------------------
(* Claims *)

\* C1: the sheet never holds two rows with the same offer id, whatever
\* discovery and per-offer runs have been made.
C1_NoDuplicateOfferIds ==
    \A i, j \in 1..Len(worksheet) :
        i # j => worksheet[i].offer_id # worksheet[j].offer_id

\* C2: the work list of a discovery run contains no identifier whose row a
\* per-offer run has already appended to the sheet.
C2_WorkListExcludesRecorded ==
    run.prog = "fetch_offers" =>
        \A i \in 1..Len(worksheet) : worksheet[i].slug \notin Range(run.slugs)

\* C3: every appended row is marked GREEN exactly when its offer lies within
\* 1.0 km of a station (1.0 km included), and RED otherwise.
C3_StatusIffWithinThreshold ==
    \A i \in 1..Len(worksheet) :
        /\ worksheet[i].status \in {"GREEN", "RED"}
        /\ worksheet[i].status = "GREEN" <=> MeetsThreshold(LatOfId(worksheet[i].offer_id))

\* C4: an extraction of a listing more than 1.0 km from its nearest station
\* calls no enrichment provider, and the record it returns has all five
\* enrichment fields equal to "N/A".
C4_NoEnrichmentBeyondThreshold ==
    (/\ run.prog = "parse_offers"
     /\ IsData(run.ad)
     /\ run.ad.missing # "coordinates"
     /\ Beyond(run.ad.lat))
    => /\ \A c \in EnrichmentCalls : ~Called(c)
       /\ IsData(run.offer_data) =>
            /\ run.offer_data.walking_time = NA
            /\ run.offer_data.transit_time = NA
            /\ run.offer_data.available_from = NA
            /\ run.offer_data.total_monthly_cost = NA
            /\ run.offer_data.key_advantages = NA

C4_Witness ==
    /\ run.prog = "parse_offers"
    /\ IsData(run.ad)
    /\ Beyond(run.ad.lat)
    /\ IsData(run.offer_data)
    /\ run.exit_code = 0

\* C5: a run of either pass that lacks a required environment value exits
\* with a non-zero code and has made no network call and no write.
C5_MissingConfigurationAbortsFirst ==
    (/\ run.prog # "none"
     /\ \/ ~run.env.SPREADSHEET_ID
        \/ run.prog = "parse_offers" /\ ~run.env.GOOGLE_MAPS_API_KEY)
    => /\ run.exit_code # 0
       /\ run.events = << >>

\* C6: when exactly one of the walking and transit calls fails and the other
\* succeeds, the failed one's field is "N/A" and the other field holds the
\* duration its call returned.
C6_TravelTimesFailIndependently ==
    (/\ run.prog = "parse_offers"
     /\ IsData(run.offer_data)
     /\ Called("distance_matrix walking")
     /\ Called("distance_matrix transit"))
    => LET w == ResultOf("distance_matrix walking")
           t == ResultOf("distance_matrix transit")
       IN  /\ (w = "OK" /\ t # "OK") =>
                /\ run.offer_data.walking_time = WalkingText
                /\ run.offer_data.transit_time = NA
           /\ (w # "OK" /\ t = "OK") =>
                /\ run.offer_data.walking_time = NA
                /\ run.offer_data.transit_time = TransitText

C8_WorkListFileMatchesLastDiscovery ==
    (run.prog = "fetch_offers" /\ run.exit_code = 0)
    => /\ current_offers = CsvLines(run.slugs)
       /\ output = current_offers

\* C9: for every query point and non-empty station table the station found
\* is the first of the table among the nearest ones; with an empty table no
\* station is found and the per-offer run fails without a record or a row.
C9_ClosestIsFirstNearest ==
    /\ \A lat \in QueryPoints :
        IF Stations = {}
        THEN find_closest_metro_station(lat, 0) = None
        ELSE FirstNearest(lat, find_closest_metro_station(lat, 0))
    /\ IsData(run.offer_data) =>
          FirstNearest(run.ad.lat, run.offer_data.closest_metro)
    /\ (run.prog = "parse_offers" /\ IsData(run.ad) /\ Stations = {}) =>
          /\ run.exit_code = 1
          /\ ~IsData(run.offer_data)
          /\ Len(worksheet) = run.rows_before

C9_Witness ==
    /\ IsData(run.offer_data)
    /\ \E i, j \in Stations :
          /\ i < j
          /\ FirstNearest(run.ad.lat, i)
          /\ Distance(run.ad.lat, j) = Distance(run.ad.lat, i)
    /\ run.offer_data.closest_metro # Len(warsaw_metro_stations)

\* C10: a per-offer run appends exactly one row if and only if it exits with
\* code 0, and a run that exits with code 1 leaves the rows as they were.
C10_RowAppendedIffExitZero ==
    run.prog = "parse_offers" =>
        /\ run.exit_code = 0 <=> Len(worksheet) = run.rows_before + 1
        /\ run.exit_code = 1 => Len(worksheet) = run.rows_before

====
